---------------------------- MODULE Spec2Model ----------------------------
(***************************************************************************)
(* Ingest pipeline of cro-geo-data: the orchestrator run_pipeline with its *)
(* run journal (cadastral/tasks.py, cadastral/etl_journaling.py), the      *)
(* batch archive fetcher (scripts/dkp_downloader.py), and the single       *)
(* archive downloader with the extractor (scripts/rpj_downloader.py,       *)
(* scripts/extractor.py).                                                  *)
(***************************************************************************)
EXTENDS Integers, Sequences, FiniteSets, TLC

VARIABLES
    \* ---- run_pipeline / track_etl_run ----
    pc,                     \* position of the orchestrator
    perform_downloads,      \* flag of the current invocation
    publish_to_geoserver,   \* flag of the current invocation
    run_id,                 \* tracker.run_id (0 is None)
    etl_runs,               \* journal.etl_runs, row id = index
    success,                \* local of track_etl_run
    error_message,          \* local of track_etl_run
    summary,                \* local of track_etl_run's finally block
    exc,                    \* exception in flight
    zips,                   \* downloaded_paths not yet extracted
    calls,                  \* stage calls and outcomes of the current run
    outcome,                \* what the caller of run_pipeline observed
    runs,                   \* invocations of run_pipeline so far
    inflight,               \* DKP downloads of the batch still in flight
    fetched,                \* archives downloaded in the current run
    extracted,              \* archives whose extraction was attempted
    staging                 \* staging tables: "clean" | "partial" | "loaded"

pipeVars == <<pc, perform_downloads, publish_to_geoserver, run_id, etl_runs,
              success, error_message, summary, exc, zips, calls, outcome, runs,
              inflight, fetched, extracted, staging>>

\* ---- DKPDownloader.scrape / download_zip ----
VARIABLES
    max_concurrent_downloads,   \* argument of scrape
    dest,                   \* entry -> destination file, Path(url).name
    semaphore,              \* free permits of asyncio.Semaphore
    task,                   \* position of each download_with_semaphore task
    attempt,                \* entry -> how its download_zip call ended
    clean,                  \* entry -> its open file holds only its own bytes
    fs,                     \* file -> "absent" | "partial" | "complete"
    results,                \* what asyncio.gather collected
    downloaded_files,       \* what scrape returned
    scrape_pc               \* position of scrape itself

scrapeVars == <<max_concurrent_downloads, dest, semaphore, task, attempt,
                clean, fs, results, downloaded_files, scrape_pc>>

\* ---- rpj_downloader / extractor ----
VARIABLES
    apc,                    \* position of the download / extraction
    kind,                   \* "dkp" | "au" | "ad"
    zip0,                   \* the archive file before the call
    zip,                    \* the archive file: "absent" | "partial" | "complete"
    requests,               \* HTTP requests sent by the downloader
    temp_dir,               \* the TemporaryDirectory exists
    todo,                   \* dataset types still to load
    loaded,                 \* dataset types bulk-loaded into staging
    aresult,                \* how the call ended
    acalls                  \* calls made so far

archiveVars == <<apc, kind, zip0, zip, requests, temp_dir, todo, loaded,
                 aresult, acalls>>

\* ---- DKPDownloader._download: feed fetch and parse ----
VARIABLES
    fpc,                    \* position of _download
    feed0,                  \* the feed file before the call
    feed,                   \* atom_xml_path: "absent" | "partial" | "complete"
    feed_gets,              \* GET requests of the feed URL in this call
    root,                   \* the entry elements of the feed document
    max_workers,            \* argument of _extract_entries
    done,                   \* futures in the order as_completed yields them
    entries_list,           \* what _extract_entries returned
    dcalls,                 \* the steps of _download that were entered
    fresult,                \* how _download ended
    fcalls                  \* calls made so far

feedVars == <<fpc, feed0, feed, feed_gets, root, max_workers, done,
              entries_list, dcalls, fresult, fcalls>>

\* ---- GeoServerPublisher.publish_catalog ----
VARIABLES
    ppc,                    \* position of publish_catalog
    layer,                  \* index of the catalog entry of the loop
    http,                   \* requests sent for layers, with their answers
    attempted,              \* layers for which _publish_layer was called
    presult,                \* how publish_catalog ended
    reported                \* geoserver_published of the run's row: "true" | "false"

pubVars == <<ppc, layer, http, attempted, presult, reported>>

\* ---- run_pipeline started by several processes ----
VARIABLES
    proc,                   \* process -> position in its run_pipeline call
    pflags,                 \* process -> its perform_downloads flag
    writes                  \* staging loads and promotion calls, in order

concVars == <<proc, pflags, writes>>

vars == <<pipeVars, scrapeVars, archiveVars, feedVars, pubVars, concVars>>

----------------------------------------------------------------------------
(* Bounds *)

MaxRuns == 2
MaxArchives == 2
NumEntries == 3
MaxConcurrent == 2
MaxCalls == 2
FeedLen == 3
MaxWorkers == 2
NumLayers == 2
MaxOps == 4
MaxLoads == 2

----------------------------------------------------------------------------
(* Values *)

None == "None"
NoCounts == [inserted |-> -1, deleted |-> -1, updated |-> -1]
NoExc == [kind |-> "none", text |-> ""]

ErrTexts == {"db error", "timeout"}
JournalErr == "journal unavailable"

\* An Exception raised by a stage, with the text str(e) yields.
StageErrors == {[kind |-> "Exception", text |-> t] : t \in ErrTexts}
\* KeyboardInterrupt / SystemExit: BaseException, not Exception.
Interrupts == {[kind |-> "BaseException", text |-> "KeyboardInterrupt"]}
StageFaults == StageErrors \cup Interrupts
JournalFault == [kind |-> "Exception", text |-> JournalErr]

\* Results of the aggregate read over journal.v_journals.
SummaryValues == {[inserted |-> 2, deleted |-> 1, updated |-> 1]}

----------------------------------------------------------------------------
(* run_pipeline and track_etl_run *)

\* Where control goes when the body of the with-block raises e: the
\* "except Exception" clause for an Exception, straight to finally otherwise.
BodyRaises(e) == IF e.kind = "Exception" THEN "except" ELSE "finally"

\* The sequencing of run_pipeline's with-block: the stage that follows `stage`.
NextStageIgnoresFlags(stage) ==
    CASE stage = "start_run" -> "download"
      [] stage = "download"  -> "refresh"
      [] stage = "refresh"   -> "publish"
NextStageSwapped(stage) ==
    CASE stage = "start_run" -> "refresh"
      [] stage = "refresh"   -> IF perform_downloads THEN "download"
                                ELSE IF publish_to_geoserver THEN "publish"
                                ELSE "finally"
      [] stage = "download"  -> IF publish_to_geoserver THEN "publish"
                                ELSE "finally"
NextStage(stage) ==
    CASE stage = "start_run" -> IF perform_downloads THEN "download"
                                ELSE "refresh"
      [] stage = "download"  -> "refresh"
      [] stage = "refresh"   -> IF publish_to_geoserver THEN "publish"
                                ELSE "finally"

\* The entry of `calls` for stage ending with e.
Ended(stage, e) ==
    stage \o (IF e.kind = "Exception" THEN ":raise" ELSE ":interrupt")

\* run_pipeline(perform_downloads=pd, publish_to_geoserver=pg) is called.
Invoke(pd, pg) ==
    /\ pc = "idle"
    /\ runs < MaxRuns
    /\ runs' = runs + 1
    /\ perform_downloads' = pd
    /\ publish_to_geoserver' = pg
    /\ run_id' = 0
    /\ success' = TRUE
    /\ error_message' = None
    /\ summary' = NoCounts
    /\ exc' = NoExc
    /\ zips' = 0
    /\ calls' = <<>>
    /\ outcome' = "running"
    /\ pc' = "start_run"
    /\ inflight' = 0
    /\ fetched' = <<>>
    /\ extracted' = <<>>
    /\ UNCHANGED <<etl_runs, staging>>
    /\ UNCHANGED <<scrapeVars, archiveVars, feedVars, pubVars, concVars>>

\* INSERT INTO journal.etl_runs ... RETURNING id: the id of the new row.
ReturnedIdReused(rows) == 1
ReturnedId(rows) == Len(rows) + 1

\* tracker.start_run: INSERT ... 'running' RETURNING id.
StartRunOk ==
    /\ pc = "start_run"
    /\ etl_runs' = Append(etl_runs,
            [status |-> "running",
             error_message |-> None,
             downloads_performed |-> perform_downloads,
             geoserver_published |-> publish_to_geoserver,
             records |-> NoCounts])
    /\ run_id' = ReturnedId(etl_runs)
    /\ pc' = NextStage("start_run")
    /\ UNCHANGED <<perform_downloads, publish_to_geoserver, success,
                   error_message, summary, exc, zips, calls, outcome, runs>>
    /\ UNCHANGED <<inflight, fetched, extracted, staging>>
    /\ UNCHANGED <<scrapeVars, archiveVars, feedVars, pubVars, concVars>>

\* start_run raises: track_etl_run has not reached its try block.
StartRunFails ==
    /\ pc = "start_run"
    /\ exc' = JournalFault
    /\ pc' = "exit"
    /\ UNCHANGED <<perform_downloads, publish_to_geoserver, run_id, etl_runs,
                   success, error_message, summary, zips, calls, outcome, runs>>
    /\ UNCHANGED <<inflight, fetched, extracted, staging>>
    /\ UNCHANGED <<scrapeVars, archiveVars, feedVars, pubVars, concVars>>

\* The body raises e while inside stage.
Raise(stage, e) ==
    /\ exc' = e
    /\ calls' = Append(calls, Ended(stage, e))
    /\ pc' = BodyRaises(e)

\* downloader.download(max_concurrent_downloads): feed, parse, scrape.
DkpDownload ==
    /\ pc = "download"
    /\ \/ \E n \in 0..MaxArchives :
            /\ inflight' = n
            /\ zips' = 0
            /\ calls' = Append(calls, "download:call")
            /\ pc' = "gather"
            /\ UNCHANGED exc
       \/ \E e \in StageFaults :
            /\ exc' = e
            /\ calls' = calls \o <<"download:call", Ended("download", e)>>
            /\ pc' = BodyRaises(e)
            /\ UNCHANGED <<zips, inflight>>
    /\ UNCHANGED <<perform_downloads, publish_to_geoserver, run_id, etl_runs,
                   success, error_message, summary, outcome, runs>>
    /\ UNCHANGED <<fetched, extracted, staging>>
    /\ UNCHANGED <<scrapeVars, archiveVars, feedVars, pubVars, concVars>>

\* await asyncio.gather(*tasks, return_exceptions=True): every task has ended.
GatherDoneEarly(n) == TRUE
GatherDone(n) == n = 0

\* asyncio.run(self._download(...)): a download of the batch ends, with or
\* without a file; download() returns the paths once gather is done.
Gather ==
    /\ pc = "gather"
    /\ IF GatherDone(inflight)
       THEN /\ pc' = "extract_dkp"
            /\ fetched' = [i \in 1..zips |-> "dkp"]
            /\ UNCHANGED <<inflight, zips>>
       ELSE /\ inflight' = inflight - 1
            /\ zips' \in {zips, zips + 1}
            /\ UNCHANGED <<pc, fetched>>
    /\ UNCHANGED <<perform_downloads, publish_to_geoserver, run_id, etl_runs,
                   success, error_message, summary, exc, calls, outcome, runs>>
    /\ UNCHANGED <<extracted, staging>>
    /\ UNCHANGED <<scrapeVars, archiveVars, feedVars, pubVars, concVars>>

\* for zip_path in downloaded_paths: extractor.extract_dkp(zip_path)
ExtractLoop ==
    /\ pc = "extract_dkp"
    /\ \/ /\ zips > 0
          /\ zips' = zips - 1
          /\ extracted' = Append(extracted, "dkp")
          /\ staging' = "partial"
          /\ UNCHANGED <<pc, exc, calls>>
       \/ \* unzip or a bulk load fails: the tables loaded before it stay
          /\ zips > 0
          /\ \E e \in StageErrors : Raise("download", e)
          /\ extracted' = Append(extracted, "dkp:raise")
          /\ staging' \in {staging, "partial"}
          /\ UNCHANGED zips
       \/ /\ zips = 0
          /\ pc' = "download_au"
          /\ UNCHANGED <<zips, exc, calls, extracted, staging>>
    /\ UNCHANGED <<perform_downloads, publish_to_geoserver, run_id, etl_runs,
                   success, error_message, summary, outcome, runs>>
    /\ UNCHANGED <<inflight, fetched>>
    /\ UNCHANGED <<scrapeVars, archiveVars, feedVars, pubVars, concVars>>

\* rpj_downloader.download_au()
DownloadAu ==
    /\ pc = "download_au"
    /\ \/ \* downloaded, then extracted
          /\ pc' = "download_ad"
          /\ fetched' = Append(fetched, "au")
          /\ extracted' = Append(extracted, "au")
          /\ staging' = "partial"
          /\ UNCHANGED <<exc, calls>>
       \/ \* download_zip raises
          /\ \E e \in StageErrors : Raise("download", e)
          /\ UNCHANGED <<fetched, extracted, staging>>
       \/ \* downloaded, extract_au raises
          /\ \E e \in StageErrors : Raise("download", e)
          /\ fetched' = Append(fetched, "au")
          /\ extracted' = Append(extracted, "au:raise")
          /\ staging' \in {staging, "partial"}
    /\ UNCHANGED <<perform_downloads, publish_to_geoserver, run_id, etl_runs,
                   success, error_message, summary, zips, outcome, runs>>
    /\ UNCHANGED inflight
    /\ UNCHANGED <<scrapeVars, archiveVars, feedVars, pubVars, concVars>>

\* rpj_downloader.download_ad(); download_and_extract_sources returns.
DownloadAd ==
    /\ pc = "download_ad"
    /\ \/ \* downloaded, then extracted: every archive of the run is loaded
          /\ pc' = NextStage("download")
          /\ calls' = Append(calls, "download:return")
          /\ fetched' = Append(fetched, "ad")
          /\ extracted' = Append(extracted, "ad")
          /\ staging' = "loaded"
          /\ UNCHANGED exc
       \/ \* download_zip raises
          /\ \E e \in StageErrors : Raise("download", e)
          /\ UNCHANGED <<fetched, extracted, staging>>
       \/ \* downloaded, extract_ad raises
          /\ \E e \in StageErrors : Raise("download", e)
          /\ fetched' = Append(fetched, "ad")
          /\ extracted' = Append(extracted, "ad:raise")
          /\ UNCHANGED staging
    /\ UNCHANGED <<perform_downloads, publish_to_geoserver, run_id, etl_runs,
                   success, error_message, summary, zips, outcome, runs>>
    /\ UNCHANGED inflight
    /\ UNCHANGED <<scrapeVars, archiveVars, feedVars, pubVars, concVars>>

\* apply_database_refresh(): SELECT staging.update_tables();
ApplyDatabaseRefresh ==
    /\ pc = "refresh"
    /\ \/ \* the merge routine moves the staging data into production
          /\ calls' = calls \o <<"refresh:call", "refresh:return">>
          /\ pc' = NextStage("refresh")
          /\ staging' = "clean"
          /\ UNCHANGED exc
       \/ \E e \in StageFaults :
            /\ exc' = e
            /\ calls' = calls \o <<"refresh:call", Ended("refresh", e)>>
            /\ pc' = BodyRaises(e)
            /\ UNCHANGED staging
    /\ UNCHANGED <<perform_downloads, publish_to_geoserver, run_id, etl_runs,
                   success, error_message, summary, zips, outcome, runs>>
    /\ UNCHANGED <<inflight, fetched, extracted>>
    /\ UNCHANGED <<scrapeVars, archiveVars, feedVars, pubVars, concVars>>

\* publish_layers() inside try ... except Exception.
PublishLayers ==
    /\ pc = "publish"
    /\ \/ /\ calls' = calls \o <<"publish:call", "publish:return">>
          /\ pc' = "status_true"
          /\ UNCHANGED exc
       \/ \E e \in StageErrors :
            /\ calls' = calls \o <<"publish:call", "publish:raise">>
            /\ pc' = "status_false"
            /\ UNCHANGED exc
       \/ \E e \in Interrupts :
            /\ exc' = e
            /\ calls' = calls \o <<"publish:call", Ended("publish", e)>>
            /\ pc' = BodyRaises(e)
    /\ UNCHANGED <<perform_downloads, publish_to_geoserver, run_id, etl_runs,
                   success, error_message, summary, zips, outcome, runs>>
    /\ UNCHANGED <<inflight, fetched, extracted, staging>>
    /\ UNCHANGED <<scrapeVars, archiveVars, feedVars, pubVars, concVars>>

\* The row update of update_geoserver_status (run_id is set here).
SetPublished(rows, id, published) ==
    IF id = 0 THEN rows
    ELSE [rows EXCEPT ![id].geoserver_published = published]

\* tracker.update_geoserver_status(True), still inside the try block.
UpdateGeoserverStatusTrue ==
    /\ pc = "status_true"
    /\ \/ /\ etl_runs' = SetPublished(etl_runs, run_id, TRUE)
          /\ pc' = "finally"
       \/ /\ pc' = "status_false"
          /\ UNCHANGED etl_runs
    /\ UNCHANGED <<perform_downloads, publish_to_geoserver, run_id, success,
                   error_message, summary, exc, zips, calls, outcome, runs>>
    /\ UNCHANGED <<inflight, fetched, extracted, staging>>
    /\ UNCHANGED <<scrapeVars, archiveVars, feedVars, pubVars, concVars>>

\* tracker.update_geoserver_status(False) in the except clause.
UpdateGeoserverStatusFalse ==
    /\ pc = "status_false"
    /\ \/ /\ etl_runs' = SetPublished(etl_runs, run_id, FALSE)
          /\ pc' = "finally"
          /\ UNCHANGED exc
       \/ /\ exc' = JournalFault
          /\ pc' = BodyRaises(JournalFault)
          /\ UNCHANGED etl_runs
    /\ UNCHANGED <<perform_downloads, publish_to_geoserver, run_id, success,
                   error_message, summary, zips, calls, outcome, runs>>
    /\ UNCHANGED <<inflight, fetched, extracted, staging>>
    /\ UNCHANGED <<scrapeVars, archiveVars, feedVars, pubVars, concVars>>

\* track_etl_run: except Exception as e: success = False; error_message = str(e)
ExceptClause ==
    /\ pc = "except"
    /\ success' = FALSE
    /\ error_message' = exc.text
    /\ pc' = "finally"
    /\ UNCHANGED <<perform_downloads, publish_to_geoserver, run_id, etl_runs,
                   summary, exc, zips, calls, outcome, runs>>
    /\ UNCHANGED <<inflight, fetched, extracted, staging>>
    /\ UNCHANGED <<scrapeVars, archiveVars, feedVars, pubVars, concVars>>

\* finally: try: ... except Exception as e: logger.exception(...): the
\* exception in flight once a bookkeeping failure has been logged, given the
\* one in flight when the finally block was entered.
BookkeepingFailureMasks(e) == JournalFault
BookkeepingFailureLogged(e) == e

\* finally: summary = tracker.get_journal_summary(); a failure is logged and
\* leaves the finally block.
GetJournalSummary ==
    /\ pc = "finally"
    /\ \/ \E s \in SummaryValues :
            /\ summary' = s
            /\ pc' = "complete_run"
            /\ UNCHANGED exc
       \/ /\ pc' = "exit"
          /\ exc' = BookkeepingFailureLogged(exc)
          /\ UNCHANGED summary
    /\ UNCHANGED <<perform_downloads, publish_to_geoserver, run_id, etl_runs,
                   success, error_message, zips, calls, outcome, runs>>
    /\ UNCHANGED <<inflight, fetched, extracted, staging>>
    /\ UNCHANGED <<scrapeVars, archiveVars, feedVars, pubVars, concVars>>

\* The row update of complete_run.
CompletedRowMutant(row, ok, msg, counts) ==
    [row EXCEPT !.status = "completed",
                !.error_message = msg,
                !.records = counts]
CompletedRow(row, ok, msg, counts) ==
    [row EXCEPT !.status = IF ok THEN "completed" ELSE "failed",
                !.error_message = msg,
                !.records = counts]

\* tracker.complete_run(success=..., records_*=..., error_message=...)
CompleteRun ==
    /\ pc = "complete_run"
    /\ \/ /\ run_id # 0
          /\ etl_runs' = [etl_runs EXCEPT ![run_id] =
                            CompletedRow(@, success, error_message, summary)]
          /\ calls' = Append(calls, "complete_run")
          /\ UNCHANGED exc
       \/ /\ run_id # 0
          /\ calls' = Append(calls, "complete_run:raise")
          /\ exc' = BookkeepingFailureLogged(exc)
          /\ UNCHANGED etl_runs
    /\ pc' = "exit"
    /\ UNCHANGED <<perform_downloads, publish_to_geoserver, run_id, success,
                   error_message, summary, zips, outcome, runs>>
    /\ UNCHANGED <<inflight, fetched, extracted, staging>>
    /\ UNCHANGED <<scrapeVars, archiveVars, feedVars, pubVars, concVars>>

\* The with-block is left: the exception in flight propagates to the caller
\* of run_pipeline, otherwise run_pipeline returns.
Exit ==
    /\ pc = "exit"
    /\ outcome' = IF exc = NoExc THEN "returned" ELSE "raised"
    /\ pc' = "idle"
    /\ UNCHANGED <<perform_downloads, publish_to_geoserver, run_id, etl_runs,
                   success, error_message, summary, exc, zips, calls, runs>>
    /\ UNCHANGED <<inflight, fetched, extracted, staging>>
    /\ UNCHANGED <<scrapeVars, archiveVars, feedVars, pubVars, concVars>>

\* No run_pipeline call has been made; the batch fetcher and the
\* single-archive downloader are at rest.
Init ==
    /\ pc = "idle"
    /\ perform_downloads = TRUE
    /\ publish_to_geoserver = TRUE
    /\ run_id = 0
    /\ etl_runs = <<>>
    /\ success = TRUE
    /\ error_message = None
    /\ summary = NoCounts
    /\ exc = NoExc
    /\ zips = 0
    /\ calls = <<>>
    /\ outcome = "none"
    /\ runs = 0
    /\ inflight = 0
    /\ fetched = <<>>
    /\ extracted = <<>>
    /\ staging = "clean"
    /\ max_concurrent_downloads = 0
    /\ dest = <<>>
    /\ semaphore = 0
    /\ task = <<>>
    /\ attempt = <<>>
    /\ clean = <<>>
    /\ fs = <<>>
    /\ results = <<>>
    /\ downloaded_files = <<>>
    /\ scrape_pc = "idle"
    /\ apc = "idle"
    /\ kind = "none"
    /\ zip0 = "absent"
    /\ zip = "absent"
    /\ requests = 0
    /\ temp_dir = FALSE
    /\ todo = <<>>
    /\ loaded = <<>>
    /\ aresult = "none"
    /\ acalls = 0
    /\ fpc = "idle"
    /\ feed0 = "absent"
    /\ feed = "absent"
    /\ feed_gets = 0
    /\ root = <<>>
    /\ max_workers = 0
    /\ done = <<>>
    /\ entries_list = <<>>
    /\ dcalls = <<>>
    /\ fresult = "none"
    /\ fcalls = 0
    /\ ppc = "idle"
    /\ layer = 0
    /\ http = <<>>
    /\ attempted = {}
    /\ presult = "none"
    /\ reported = "unset"
    /\ proc = <<>>
    /\ pflags = <<>>
    /\ writes = <<>>

Next ==
    \/ \E pd \in BOOLEAN, pg \in BOOLEAN : Invoke(pd, pg)
    \/ StartRunOk
    \/ StartRunFails
    \/ DkpDownload
    \/ Gather
    \/ ExtractLoop
    \/ DownloadAu
    \/ DownloadAd
    \/ ApplyDatabaseRefresh
    \/ PublishLayers
    \/ UpdateGeoserverStatusTrue
    \/ UpdateGeoserverStatusFalse
    \/ ExceptClause
    \/ GetJournalSummary
    \/ CompleteRun
    \/ Exit

Spec == Init /\ [][Next]_vars

----------------------------------------------------------------------------
(* DKPDownloader.scrape: the batch fetcher *)

Entries == 1..NumEntries
Files == {"ko-1.zip", "ko-2.zip"}

\* async with semaphore: a permit is free.
CanAcquireUnbounded == TRUE
CanAcquire == semaphore > 0

\* The entry's task is inside download_zip.
InFlight(e) == task[e] \in {"request", "open", "write", "stat"}

\* download_with_semaphore: the path download_zip returned, None when it raised.
WithSemaphoreResult(e, how) == IF how = "ok" THEN dest[e] ELSE None

\* scrape's filter over the gathered results.
IsDownloadedKeepsAll(r) == TRUE
IsDownloaded(r) == r # None /\ r # "exception"

\* Every other task that has the same destination open loses sole ownership
\* of the file's bytes.
Disturb(e) ==
    [x \in Entries |-> IF x # e /\ dest[x] = dest[e] THEN FALSE ELSE clean[x]]

\* download_zip returns (how = "ok") or raises (how = "error") out of entry
\* e's task; download_with_semaphore returns and leaves "async with
\* semaphore". No await lies between the two, so this is one step.
Finish(e, how) ==
    /\ task' = [task EXCEPT ![e] = "done"]
    /\ attempt' = [attempt EXCEPT ![e] = how]
    /\ results' = [results EXCEPT ![e] = WithSemaphoreResult(e, how)]
    /\ semaphore' = semaphore + 1

\* except httpx.RequestError: if dest_path.exists(): dest_path.unlink(); raise
RequestErrorCleanup(e) ==
    /\ fs' = [fs EXCEPT ![dest[e]] = "absent"]
    /\ clean' = IF fs[dest[e]] = "absent" THEN clean
                ELSE [Disturb(e) EXCEPT ![e] = FALSE]
    /\ Finish(e, "error")

\* async with semaphore: the task enters and calls download_zip.
Acquire(e) ==
    /\ scrape_pc = "gather"
    /\ task[e] = "wait"
    /\ CanAcquire
    /\ semaphore' = semaphore - 1
    /\ task' = [task EXCEPT ![e] = "request"]
    /\ attempt' = [attempt EXCEPT ![e] = "started"]
    /\ UNCHANGED <<max_concurrent_downloads, dest, clean, fs, results,
                   downloaded_files, scrape_pc>>
    /\ UNCHANGED <<pipeVars, archiveVars, feedVars, pubVars, concVars>>

\* client.stream("GET", url) and response.raise_for_status()
Request(e) ==
    /\ task[e] = "request"
    /\ \/ /\ task' = [task EXCEPT ![e] = "open"]
          /\ UNCHANGED <<attempt, results, semaphore, fs, clean>>
       \/ \* httpx.RequestError (connect, timeout)
          RequestErrorCleanup(e)
       \/ \* httpx.HTTPStatusError: not a RequestError, no cleanup
          /\ Finish(e, "error")
          /\ UNCHANGED <<fs, clean>>
    /\ UNCHANGED <<max_concurrent_downloads, dest, downloaded_files, scrape_pc>>
    /\ UNCHANGED <<pipeVars, archiveVars, feedVars, pubVars, concVars>>

\* aiofiles.open(dest_path, "wb"): creates or truncates the file
Open(e) ==
    /\ task[e] = "open"
    /\ \/ /\ fs' = [fs EXCEPT ![dest[e]] = "partial"]
          /\ clean' = [Disturb(e) EXCEPT ![e] = TRUE]
          /\ task' = [task EXCEPT ![e] = "write"]
          /\ UNCHANGED <<attempt, results, semaphore>>
       \/ \* OSError: not a RequestError, no cleanup
          /\ Finish(e, "error")
          /\ UNCHANGED <<fs, clean>>
    /\ UNCHANGED <<max_concurrent_downloads, dest, downloaded_files, scrape_pc>>
    /\ UNCHANGED <<pipeVars, archiveVars, feedVars, pubVars, concVars>>

\* async for chunk in response.aiter_bytes(): await f.write(chunk)
Write(e) ==
    /\ task[e] = "write"
    /\ \/ \* one chunk written
          /\ fs' = IF fs[dest[e]] = "absent" THEN fs
                   ELSE [fs EXCEPT ![dest[e]] = "partial"]
          /\ clean' = Disturb(e)
          /\ UNCHANGED <<task, attempt, results, semaphore>>
       \/ \* end of stream, the file is closed
          /\ fs' = IF fs[dest[e]] # "absent" /\ clean[e]
                   THEN [fs EXCEPT ![dest[e]] = "complete"] ELSE fs
          /\ task' = [task EXCEPT ![e] = "stat"]
          /\ UNCHANGED <<attempt, results, semaphore, clean>>
       \/ \* httpx.RequestError while reading the body
          RequestErrorCleanup(e)
       \/ \* OSError while writing: not a RequestError, no cleanup
          /\ Finish(e, "error")
          /\ UNCHANGED <<clean, fs>>
    /\ UNCHANGED <<max_concurrent_downloads, dest, downloaded_files, scrape_pc>>
    /\ UNCHANGED <<pipeVars, archiveVars, feedVars, pubVars, concVars>>

\* file_size = dest_path.stat().st_size; return dest_path
Stat(e) ==
    /\ task[e] = "stat"
    /\ IF fs[dest[e]] = "absent"
       THEN Finish(e, "error")
       ELSE Finish(e, "ok")
    /\ UNCHANGED <<max_concurrent_downloads, dest, clean, fs,
                   downloaded_files, scrape_pc>>
    /\ UNCHANGED <<pipeVars, archiveVars, feedVars, pubVars, concVars>>

\* results = await asyncio.gather(*tasks, return_exceptions=True); the filter
ScrapeReturn ==
    /\ scrape_pc = "gather"
    /\ \A e \in Entries : task[e] = "done"
    /\ downloaded_files' =
            SelectSeq([e \in Entries |-> results[e]], IsDownloaded)
    /\ scrape_pc' = "returned"
    /\ UNCHANGED <<max_concurrent_downloads, dest, semaphore, task, attempt,
                   clean, fs, results>>
    /\ UNCHANGED <<pipeVars, archiveVars, feedVars, pubVars, concVars>>

\* scrape(max_concurrent_downloads) has created its semaphore and tasks; the
\* output directory may hold archives of an earlier run of the same day.
ScrapeInit ==
    /\ max_concurrent_downloads \in 1..MaxConcurrent
    /\ dest \in [Entries -> Files]
    /\ semaphore = max_concurrent_downloads
    /\ task = [e \in Entries |-> "wait"]
    /\ attempt = [e \in Entries |-> "none"]
    /\ clean = [e \in Entries |-> FALSE]
    /\ fs \in [Files -> {"absent", "complete"}]
    /\ results = [e \in Entries |-> "pending"]
    /\ downloaded_files = <<>>
    /\ scrape_pc = "gather"
    /\ pc = "idle"
    /\ perform_downloads = TRUE
    /\ publish_to_geoserver = TRUE
    /\ run_id = 0
    /\ etl_runs = <<>>
    /\ success = TRUE
    /\ error_message = None
    /\ summary = NoCounts
    /\ exc = NoExc
    /\ zips = 0
    /\ calls = <<>>
    /\ outcome = "none"
    /\ runs = 0
    /\ inflight = 0
    /\ fetched = <<>>
    /\ extracted = <<>>
    /\ staging = "clean"
    /\ apc = "idle"
    /\ kind = "none"
    /\ zip0 = "absent"
    /\ zip = "absent"
    /\ requests = 0
    /\ temp_dir = FALSE
    /\ todo = <<>>
    /\ loaded = <<>>
    /\ aresult = "none"
    /\ acalls = 0
    /\ fpc = "idle"
    /\ feed0 = "absent"
    /\ feed = "absent"
    /\ feed_gets = 0
    /\ root = <<>>
    /\ max_workers = 0
    /\ done = <<>>
    /\ entries_list = <<>>
    /\ dcalls = <<>>
    /\ fresult = "none"
    /\ fcalls = 0
    /\ ppc = "idle"
    /\ layer = 0
    /\ http = <<>>
    /\ attempted = {}
    /\ presult = "none"
    /\ reported = "unset"
    /\ proc = <<>>
    /\ pflags = <<>>
    /\ writes = <<>>

ScrapeNext ==
    \/ \E e \in Entries : Acquire(e)
    \/ \E e \in Entries : Request(e)
    \/ \E e \in Entries : Open(e)
    \/ \E e \in Entries : Write(e)
    \/ \E e \in Entries : Stat(e)
    \/ ScrapeReturn

SpecScrape == ScrapeInit /\ [][ScrapeNext]_vars

----------------------------------------------------------------------------
(* rpj_downloader.download_au / download_ad and extractor.extract_* *)

DKP_TYPES == <<"katastarske_opcine", "katastarske_cestice",
               "nacini_uporabe_zgrada">>
AU_TYPES == <<"Drzava", "Zupanija", "Jedinica lokalne samouprave", "Naselje">>
AD_TYPES == <<"Address", "ThoroughfareName", "PostalDescriptor">>

TypesOf(k) ==
    CASE k = "dkp" -> DKP_TYPES
      [] k = "au"  -> AU_TYPES
      [] k = "ad"  -> AD_TYPES

\* The archive file when extract_dkp / extract_au is left (returning or
\* raising): both only read it.
ZipAfterExtractSrc(z) == z
\* The archive file when extract_ad is left: deleted on every path.
ZipAfterExtractAd(z) == "absent"
ZipAfterExtract(k, z) ==
    IF k = "ad" THEN ZipAfterExtractAd(z) ELSE ZipAfterExtractSrc(z)

\* The call raises, in the download or in the extraction.
ArchiveRaises(where) ==
    /\ apc' = "done"
    /\ aresult' = where \o ":raised"

\* _download_zip: async with aiofiles.open(dest_path, 'wb') as f
ArchiveOpen ==
    /\ apc = "open"
    /\ \/ /\ zip' = "partial"
          /\ apc' = "get"
          /\ UNCHANGED aresult
       \/ \* OSError
          /\ ArchiveRaises("download")
          /\ UNCHANGED zip
    /\ UNCHANGED <<kind, zip0, requests, temp_dir, todo, loaded, acalls>>
    /\ UNCHANGED <<pipeVars, scrapeVars, feedVars, pubVars, concVars>>

\* response = await client.get(url); response.raise_for_status()
ArchiveGet ==
    /\ apc = "get"
    /\ requests' = requests + 1
    /\ \/ /\ apc' = "write"
          /\ UNCHANGED aresult
       \/ \* httpx.RequestError or httpx.HTTPStatusError: the open file is
          \* closed and stays
          ArchiveRaises("download")
    /\ UNCHANGED <<kind, zip0, zip, temp_dir, todo, loaded, acalls>>
    /\ UNCHANGED <<pipeVars, scrapeVars, feedVars, pubVars, concVars>>

\* async for chunk in response.aiter_bytes(): await f.write(chunk); return
ArchiveWrite ==
    /\ apc = "write"
    /\ \/ /\ zip' = "complete"
          /\ apc' = "unzip"
          /\ UNCHANGED aresult
       \/ \* OSError while writing
          /\ ArchiveRaises("download")
          /\ UNCHANGED zip
    /\ UNCHANGED <<kind, zip0, requests, temp_dir, todo, loaded, acalls>>
    /\ UNCHANGED <<pipeVars, scrapeVars, feedVars, pubVars, concVars>>

\* with zipfile.ZipFile(zip_path, 'r') as zf, TemporaryDirectory() as temp_dir:
\*     zf.extractall(temp_dir)
Unzip ==
    /\ apc = "unzip"
    /\ IF zip = "complete"
       THEN /\ temp_dir' = TRUE
            /\ todo' = TypesOf(kind)
            /\ apc' = "load"
            /\ UNCHANGED <<zip, aresult>>
       ELSE \* FileNotFoundError / zipfile.BadZipFile
            /\ ArchiveRaises("extract")
            /\ zip' = ZipAfterExtract(kind, zip)
            /\ UNCHANGED <<temp_dir, todo>>
    /\ UNCHANGED <<kind, zip0, requests, loaded, acalls>>
    /\ UNCHANGED <<pipeVars, scrapeVars, feedVars, pubVars, concVars>>

\* for t in TYPES: parse_*_gml(...): subprocess.run(("ogr2ogr", ...), check=True)
BulkLoad ==
    /\ apc = "load"
    /\ todo # <<>>
    /\ \/ /\ loaded' = Append(loaded, Head(todo))
          /\ todo' = Tail(todo)
          /\ UNCHANGED <<apc, aresult, zip, temp_dir>>
       \/ \* subprocess.CalledProcessError leaves the with-block
          /\ ArchiveRaises("extract")
          /\ temp_dir' = FALSE
          /\ zip' = ZipAfterExtract(kind, zip)
          /\ UNCHANGED <<todo, loaded>>
    /\ UNCHANGED <<kind, zip0, requests, acalls>>
    /\ UNCHANGED <<pipeVars, scrapeVars, feedVars, pubVars, concVars>>

\* The with-block ends: the temporary directory is removed; extract_* returns.
ExtractReturn ==
    /\ apc = "load"
    /\ todo = <<>>
    /\ temp_dir' = FALSE
    /\ zip' = ZipAfterExtract(kind, zip)
    /\ apc' = "done"
    /\ aresult' = "returned"
    /\ UNCHANGED <<kind, zip0, requests, todo, loaded, acalls>>
    /\ UNCHANGED <<pipeVars, scrapeVars, feedVars, pubVars, concVars>>

\* The same call is made again (a re-run of the pipeline on the same day):
\* the archive file is what the earlier call left.
ArchiveCall ==
    /\ apc = "done"
    /\ acalls < MaxCalls
    /\ acalls' = acalls + 1
    /\ zip0' = zip
    /\ apc' = IF kind = "dkp" THEN "unzip" ELSE "open"
    /\ requests' = 0
    /\ todo' = <<>>
    /\ loaded' = <<>>
    /\ aresult' = "none"
    /\ UNCHANGED <<kind, zip, temp_dir>>
    /\ UNCHANGED <<pipeVars, scrapeVars, feedVars, pubVars, concVars>>

\* download_au() / download_ad() is called with the day's output directory
\* empty or holding the archive of an earlier call, or extract_dkp(zip_path)
\* is called on a path scrape returned.
ArchiveInit ==
    /\ kind \in {"dkp", "au", "ad"}
    /\ zip0 \in {"absent", "partial", "complete"}
    /\ zip = zip0
    /\ apc = IF kind = "dkp" THEN "unzip" ELSE "open"
    /\ requests = 0
    /\ temp_dir = FALSE
    /\ todo = <<>>
    /\ loaded = <<>>
    /\ aresult = "none"
    /\ acalls = 1
    /\ pc = "idle"
    /\ perform_downloads = TRUE
    /\ publish_to_geoserver = TRUE
    /\ run_id = 0
    /\ etl_runs = <<>>
    /\ success = TRUE
    /\ error_message = None
    /\ summary = NoCounts
    /\ exc = NoExc
    /\ zips = 0
    /\ calls = <<>>
    /\ outcome = "none"
    /\ runs = 0
    /\ inflight = 0
    /\ fetched = <<>>
    /\ extracted = <<>>
    /\ staging = "clean"
    /\ max_concurrent_downloads = 0
    /\ dest = <<>>
    /\ semaphore = 0
    /\ task = <<>>
    /\ attempt = <<>>
    /\ clean = <<>>
    /\ fs = <<>>
    /\ results = <<>>
    /\ downloaded_files = <<>>
    /\ scrape_pc = "idle"
    /\ fpc = "idle"
    /\ feed0 = "absent"
    /\ feed = "absent"
    /\ feed_gets = 0
    /\ root = <<>>
    /\ max_workers = 0
    /\ done = <<>>
    /\ entries_list = <<>>
    /\ dcalls = <<>>
    /\ fresult = "none"
    /\ fcalls = 0
    /\ ppc = "idle"
    /\ layer = 0
    /\ http = <<>>
    /\ attempted = {}
    /\ presult = "none"
    /\ reported = "unset"
    /\ proc = <<>>
    /\ pflags = <<>>
    /\ writes = <<>>

ArchiveNext ==
    \/ ArchiveOpen
    \/ ArchiveGet
    \/ ArchiveWrite
    \/ Unzip
    \/ BulkLoad
    \/ ExtractReturn
    \/ ArchiveCall

SpecArchive == ArchiveInit /\ [][ArchiveNext]_vars

----------------------------------------------------------------------------
(* DKPDownloader._download: _download_atom_feed, _parse_atom_feed, scrape *)

\* The text of an atom:id element, one character per item.
Id2 == <<"k", "o", "-", "2", ".", "z">>
Id10 == <<"k", "-", "o", "-", "1", "0", ".", "z">>
IdX == <<"k", "o", "-", "x", ".", "z">>

\* The entry elements a feed document may hold: two well formed ones (one
\* without an updated element), and ones without link, with an empty href,
\* without id (<<>>), with an id that is not a number, and with an updated
\* text that is not an ISO date.
Elements ==
    {[link |-> TRUE, href |-> "u", id |-> Id2, updated |-> "ok"],
     [link |-> TRUE, href |-> "u", id |-> Id10, updated |-> "absent"],
     [link |-> FALSE, href |-> "u", id |-> Id2, updated |-> "ok"],
     [link |-> TRUE, href |-> "", id |-> Id2, updated |-> "ok"],
     [link |-> TRUE, href |-> "u", id |-> <<>>, updated |-> "ok"],
     [link |-> TRUE, href |-> "u", id |-> IdX, updated |-> "ok"],
     [link |-> TRUE, href |-> "u", id |-> Id2, updated |-> "bad"]}

\* The result of _extract_single_entry for an element that is skipped.
NoEntry == [id |-> -1, title |-> 0]

\* text.rsplit("-", 1)[1]: what follows the last "-"; <<"IndexError">> when
\* the text has none.
Last(text, c) ==
    IF \E i \in DOMAIN text : text[i] = c
    THEN CHOOSE i \in DOMAIN text :
            text[i] = c /\ \A j \in DOMAIN text : text[j] = c => j <= i
    ELSE 0
RSplit1(text) ==
    IF Last(text, "-") = 0 THEN <<"IndexError">>
    ELSE SubSeq(text, Last(text, "-") + 1, Len(text))

\* text.split(".")[0]: what precedes the first "."
Split0(text) ==
    IF \E i \in DOMAIN text : text[i] = "."
    THEN SubSeq(text, 1,
            (CHOOSE i \in DOMAIN text :
                text[i] = "." /\ \A j \in DOMAIN text : text[j] = "." => i <= j)
            - 1)
    ELSE text

DigitValue == ("0" :> 0) @@ ("1" :> 1) @@ ("2" :> 2)

\* int(text); -1 stands for ValueError.
RECURSIVE IntOf(_)
IntOf(text) ==
    IF text = <<>> \/ \E i \in DOMAIN text : text[i] \notin DOMAIN DigitValue
    THEN -1
    ELSE IF Len(text) = 1 THEN DigitValue[text[1]]
    ELSE 10 * IntOf(SubSeq(text, 1, Len(text) - 1)) + DigitValue[text[Len(text)]]

\* _extract_single_entry(entry): the element at position i of the document;
\* the position stands for its title. Every exception inside is caught and
\* gives None.
ExtractSingleEntry(i) ==
    LET entry == root[i] IN
    IF ~entry.link THEN NoEntry
    ELSE IF entry.href = "" THEN NoEntry
    ELSE IF entry.id = <<>> THEN NoEntry
    ELSE IF IntOf(Split0(RSplit1(entry.id))) = -1 THEN NoEntry
    ELSE IF entry.updated = "bad" THEN NoEntry
    ELSE [id |-> IntOf(Split0(RSplit1(entry.id))), title |-> i]

\* entries_list.sort(key=lambda e: e.id): a stable sort.
RECURSIVE SortById(_)
SortByIdSkipped(seq) == seq
SortById(seq) ==
    IF seq = <<>> THEN <<>>
    ELSE LET rest == SortById(SubSeq(seq, 1, Len(seq) - 1))
             e == seq[Len(seq)]
             k == Cardinality({j \in DOMAIN rest : rest[j].id <= e.id})
         IN  SubSeq(rest, 1, k) \o <<e>> \o SubSeq(rest, k + 1, Len(rest))

\* The futures a worker thread is executing: the executor starts the
\* submitted calls in order, max_workers at a time.
Executing ==
    {i \in DOMAIN root :
        /\ i <= Len(done) + max_workers
        /\ \A j \in DOMAIN done : done[j] # i}

\* if self.atom_xml_path.exists()
FeedNeverExists(f) == FALSE
FeedExists(f) == f # "absent"

\* _download_atom_feed raises, or _parse_atom_feed does.
FeedRaises(where) ==
    /\ fpc' = "done"
    /\ fresult' = where \o ":raised"

\* _download is entered: if self.atom_xml_path.exists(): return
CheckFeed ==
    /\ fpc = "feed"
    /\ dcalls' = Append(dcalls, "feed")
    /\ fpc' = IF FeedExists(feed) THEN "parse" ELSE "get"
    /\ UNCHANGED <<feed0, feed, feed_gets, root, max_workers, done,
                   entries_list, fresult, fcalls>>
    /\ UNCHANGED <<pipeVars, scrapeVars, archiveVars, pubVars, concVars>>

\* client.stream("GET", self.ATOM_URL); response.raise_for_status()
FeedGet ==
    /\ fpc = "get"
    /\ feed_gets' = feed_gets + 1
    /\ \/ /\ fpc' = "write"
          /\ UNCHANGED <<feed, fresult>>
       \/ \* httpx.RequestError: unlink if the file exists, re-raise
          /\ feed' = "absent"
          /\ FeedRaises("feed")
       \/ \* httpx.HTTPStatusError: not a RequestError
          /\ FeedRaises("feed")
          /\ UNCHANGED feed
    /\ UNCHANGED <<feed0, root, max_workers, done, entries_list, dcalls, fcalls>>
    /\ UNCHANGED <<pipeVars, scrapeVars, archiveVars, pubVars, concVars>>

\* aiofiles.open(self.atom_xml_path, "wb") and the chunk loop
FeedWrite ==
    /\ fpc = "write"
    /\ \/ \* the whole body is written, stat() succeeds
          /\ feed' = "complete"
          /\ fpc' = "parse"
          /\ UNCHANGED fresult
       \/ \* httpx.RequestError while reading the body: unlink, re-raise
          /\ feed' = "absent"
          /\ FeedRaises("feed")
       \/ \* OSError while writing, or the task is cancelled: neither is a
          \* RequestError, the file stays as far as it was written
          /\ feed' = "partial"
          /\ FeedRaises("feed")
    /\ UNCHANGED <<feed0, feed_gets, root, max_workers, done, entries_list,
                   dcalls, fcalls>>
    /\ UNCHANGED <<pipeVars, scrapeVars, archiveVars, pubVars, concVars>>

\* _parse_atom_feed: ET.parse(self.atom_xml_path), then _extract_entries
\* submits one call per entry element.
ParseAtomFeed ==
    /\ fpc = "parse"
    /\ dcalls' = Append(dcalls, "parse")
    /\ IF feed = "complete"
       THEN /\ fpc' = "extract"
            /\ UNCHANGED fresult
       ELSE \* xml.etree.ElementTree.ParseError on a truncated document
            FeedRaises("parse")
    /\ UNCHANGED <<feed0, feed, feed_gets, root, max_workers, done,
                   entries_list, fcalls>>
    /\ UNCHANGED <<pipeVars, scrapeVars, archiveVars, pubVars, concVars>>

\* A worker thread finishes _extract_single_entry for element i.
WorkerFinishes(i) ==
    /\ fpc = "extract"
    /\ i \in Executing
    /\ done' = Append(done, i)
    /\ UNCHANGED <<fpc, feed0, feed, feed_gets, root, max_workers,
                   entries_list, dcalls, fresult, fcalls>>
    /\ UNCHANGED <<pipeVars, scrapeVars, archiveVars, pubVars, concVars>>

\* [future.result() for future in as_completed(...) if future.result() is
\* not None]; entries_list.sort(...); return entries_list
ExtractEntries ==
    /\ fpc = "extract"
    /\ Len(done) = Len(root)
    /\ entries_list' =
          SortById(SelectSeq([j \in DOMAIN done |-> ExtractSingleEntry(done[j])],
                             LAMBDA r : r # NoEntry))
    /\ fpc' = "scrape"
    /\ UNCHANGED <<feed0, feed, feed_gets, root, max_workers, done, dcalls,
                   fresult, fcalls>>
    /\ UNCHANGED <<pipeVars, scrapeVars, archiveVars, pubVars, concVars>>

\* downloaded = await self.scrape(...); return downloaded, or log and re-raise
DownloadScrape ==
    /\ fpc = "scrape"
    /\ dcalls' = Append(dcalls, "scrape")
    /\ fpc' = "done"
    /\ fresult' \in {"returned", "scrape:raised"}
    /\ UNCHANGED <<feed0, feed, feed_gets, root, max_workers, done,
                   entries_list, fcalls>>
    /\ UNCHANGED <<pipeVars, scrapeVars, archiveVars, pubVars, concVars>>

\* download() is called again on the same day (the next run): the feed file
\* is what the earlier call left.
DownloadAgain ==
    /\ fpc = "done"
    /\ fcalls < MaxCalls
    /\ fcalls' = fcalls + 1
    /\ feed0' = feed
    /\ feed_gets' = 0
    /\ done' = <<>>
    /\ entries_list' = <<>>
    /\ dcalls' = <<>>
    /\ fresult' = "none"
    /\ fpc' = "feed"
    /\ UNCHANGED <<feed, root, max_workers>>
    /\ UNCHANGED <<pipeVars, scrapeVars, archiveVars, pubVars, concVars>>

\* download(max_concurrent_downloads) is called for the first time on a day:
\* the day's directory is empty; the feed document has FeedLen entry elements.
FeedInit ==
    /\ fpc = "feed"
    /\ feed0 = "absent"
    /\ feed = feed0
    /\ feed_gets = 0
    /\ root \in [1..FeedLen -> Elements]
    /\ max_workers \in 1..MaxWorkers
    /\ done = <<>>
    /\ entries_list = <<>>
    /\ dcalls = <<>>
    /\ fresult = "none"
    /\ fcalls = 1
    /\ pc = "idle"
    /\ perform_downloads = TRUE
    /\ publish_to_geoserver = TRUE
    /\ run_id = 0
    /\ etl_runs = <<>>
    /\ success = TRUE
    /\ error_message = None
    /\ summary = NoCounts
    /\ exc = NoExc
    /\ zips = 0
    /\ calls = <<>>
    /\ outcome = "none"
    /\ runs = 0
    /\ inflight = 0
    /\ fetched = <<>>
    /\ extracted = <<>>
    /\ staging = "clean"
    /\ max_concurrent_downloads = 0
    /\ dest = <<>>
    /\ semaphore = 0
    /\ task = <<>>
    /\ attempt = <<>>
    /\ clean = <<>>
    /\ fs = <<>>
    /\ results = <<>>
    /\ downloaded_files = <<>>
    /\ scrape_pc = "idle"
    /\ apc = "idle"
    /\ kind = "none"
    /\ zip0 = "absent"
    /\ zip = "absent"
    /\ requests = 0
    /\ temp_dir = FALSE
    /\ todo = <<>>
    /\ loaded = <<>>
    /\ aresult = "none"
    /\ acalls = 0
    /\ ppc = "idle"
    /\ layer = 0
    /\ http = <<>>
    /\ attempted = {}
    /\ presult = "none"
    /\ reported = "unset"
    /\ proc = <<>>
    /\ pflags = <<>>
    /\ writes = <<>>

FeedNext ==
    \/ CheckFeed
    \/ FeedGet
    \/ FeedWrite
    \/ ParseAtomFeed
    \/ \E i \in 1..FeedLen : WorkerFinishes(i)
    \/ ExtractEntries
    \/ DownloadScrape
    \/ DownloadAgain

SpecFeed == FeedInit /\ [][FeedNext]_vars

----------------------------------------------------------------------------
(* GeoServerPublisher.publish_catalog *)

Catalog == 1..NumLayers

\* Answers of the REST service; 0 stands for a transport failure
\* (httpx.RequestError) instead of an answer.
PostAnswers == {201, 409, 200, 500, 0}
PutAnswers == {200, 500, 0}
ProbeAnswers == {200, 404, 500}

\* except httpx.HTTPError: the exceptions publish_catalog's loop catches.
\* django.db.Error of the bounding-box query is not one of them.
IsHTTPError(e) == e \in {"RequestError", "HTTPStatusError"}

\* if create_resp.status_code == 409: self._client.put(...)
UpdatesOnAnyAnswer(status) == status # 0
UpdatesOn(status) == status = 409

\* What the create POST's answer raises inside _publish_layer:
\* a transport failure, or create_resp.raise_for_status() on 4xx / 5xx.
PostRaises(status) ==
    IF status = 0 THEN "RequestError"
    ELSE IF status \notin {201, 409} /\ status >= 400 THEN "HTTPStatusError"
    ELSE "none"

\* The loop of publish_catalog goes on to the next catalog entry, or ends.
NextLayer ==
    IF layer < NumLayers
    THEN /\ layer' = layer + 1
         /\ ppc' = "bbox"
         /\ UNCHANGED presult
    ELSE /\ ppc' = "done"
         /\ presult' = "returned"
         /\ UNCHANGED layer

\* An exception e leaves _publish_layer: caught and logged by the loop when
\* it is an httpx.HTTPError, leaving publish_catalog otherwise.
LayerRaises(e, where) ==
    IF IsHTTPError(e)
    THEN NextLayer
    ELSE /\ ppc' = "done"
         /\ presult' = where \o ":raised"
         /\ UNCHANGED layer

\* if resp.status_code == 200: return -- the existence probe found the
\* resource.
ProbeNeverFound(status) == FALSE
ProbeFound(status) == status = 200

\* Answers to the create POST of a workspace or datastore; they are not
\* looked at. 0 stands for a transport failure.
CreateAnswers == {201, 500, 0}

\* The requests one ensure sends, given the probe's answer a and the answer
\* p a create POST would get.
EnsureRequests(a, p) ==
    IF ProbeFound(a)
    THEN <<[method |-> "GET", layer |-> 0, status |-> a]>>
    ELSE <<[method |-> "GET", layer |-> 0, status |-> a],
           [method |-> "POST", layer |-> 0, status |-> p]>>

\* The create POST was sent and raised httpx.RequestError.
EnsureRaises(a, p) == ~ProbeFound(a) /\ p = 0

\* _ensure_workspace: GET the workspace, POST it when the answer is not 200.
\* Neither call is inside the loop's try.
EnsureWorkspace ==
    /\ ppc = "workspace"
    /\ \/ \E a \in ProbeAnswers, p \in CreateAnswers :
            /\ http' = http \o EnsureRequests(a, p)
            /\ IF EnsureRaises(a, p)
               THEN /\ ppc' = "done"
                    /\ presult' = "workspace:raised"
               ELSE /\ ppc' = "datastore"
                    /\ UNCHANGED presult
       \/ \* the probe raises httpx.RequestError
          /\ http' = Append(http, [method |-> "GET", layer |-> 0, status |-> 0])
          /\ ppc' = "done"
          /\ presult' = "workspace:raised"
    /\ UNCHANGED <<layer, attempted>>
    /\ UNCHANGED reported
    /\ UNCHANGED <<pipeVars, scrapeVars, archiveVars, feedVars, concVars>>

\* _ensure_datastore: GET the datastore, POST it when the answer is not 200;
\* then the loop starts with the first catalog entry.
EnsureDatastore ==
    /\ ppc = "datastore"
    /\ \/ \E a \in ProbeAnswers, p \in CreateAnswers :
            /\ http' = http \o EnsureRequests(a, p)
            /\ IF EnsureRaises(a, p)
               THEN /\ ppc' = "done"
                    /\ presult' = "datastore:raised"
                    /\ UNCHANGED layer
               ELSE /\ ppc' = "bbox"
                    /\ layer' = 1
                    /\ UNCHANGED presult
       \/ /\ http' = Append(http, [method |-> "GET", layer |-> 0, status |-> 0])
          /\ ppc' = "done"
          /\ presult' = "datastore:raised"
          /\ UNCHANGED layer
    /\ UNCHANGED attempted
    /\ UNCHANGED reported
    /\ UNCHANGED <<pipeVars, scrapeVars, archiveVars, feedVars, concVars>>

\* self._publish_layer(layer) is called: bbox = self._compute_bbox(...)
ComputeBbox ==
    /\ ppc = "bbox"
    /\ attempted' = attempted \cup {layer}
    /\ \/ /\ ppc' = "post"
          /\ UNCHANGED <<layer, presult>>
       \/ \* the query fails: django.db.Error
          LayerRaises("DatabaseError", "bbox")
    /\ UNCHANGED http
    /\ UNCHANGED reported
    /\ UNCHANGED <<pipeVars, scrapeVars, archiveVars, feedVars, concVars>>

\* create_resp = self._client.post(url, json=payload) and what follows it
CreateLayer ==
    /\ ppc = "post"
    /\ \E a \in PostAnswers :
        /\ http' = Append(http, [method |-> "POST", layer |-> layer, status |-> a])
        /\ IF a # 0 /\ UpdatesOn(a)
           THEN /\ ppc' = "put"
                /\ UNCHANGED <<layer, presult>>
           ELSE IF PostRaises(a) # "none"
           THEN LayerRaises(PostRaises(a), "post")
           ELSE NextLayer
    /\ UNCHANGED attempted
    /\ UNCHANGED reported
    /\ UNCHANGED <<pipeVars, scrapeVars, archiveVars, feedVars, concVars>>

\* self._client.put(f"{url}/{layer['wms_name']}", json=payload); the answer
\* is not looked at.
UpdateLayer ==
    /\ ppc = "put"
    /\ \E a \in PutAnswers :
        /\ http' = Append(http, [method |-> "PUT", layer |-> layer, status |-> a])
        /\ IF a = 0 THEN LayerRaises("RequestError", "put") ELSE NextLayer
    /\ UNCHANGED attempted
    /\ UNCHANGED reported
    /\ UNCHANGED <<pipeVars, scrapeVars, archiveVars, feedVars, concVars>>

\* run_pipeline's publish branch around publish_layers(): try:
\* publish_layers(); tracker.update_geoserver_status(True); except Exception:
\* tracker.update_geoserver_status(False). Either status update may raise,
\* and the second one then leaves the column as start_run inserted it.
RecordPublication ==
    /\ ppc = "done"
    /\ IF presult = "returned"
       THEN \/ reported' = "true"
            \/ reported' = "false"
            \/ UNCHANGED reported
       ELSE \/ reported' = "false"
            \/ UNCHANGED reported
    /\ ppc' = "recorded"
    /\ UNCHANGED <<layer, http, attempted, presult>>
    /\ UNCHANGED <<pipeVars, scrapeVars, archiveVars, feedVars, concVars>>

\* publish_catalog(settings.LAYER_CATALOG) is called in the publish branch of
\* a run whose row start_run inserted with geoserver_published true.
PublishInit ==
    /\ ppc = "workspace"
    /\ layer = 0
    /\ http = <<>>
    /\ attempted = {}
    /\ presult = "none"
    /\ reported = "true"
    /\ proc = <<>>
    /\ pflags = <<>>
    /\ writes = <<>>
    /\ pc = "idle"
    /\ perform_downloads = TRUE
    /\ publish_to_geoserver = TRUE
    /\ run_id = 0
    /\ etl_runs = <<>>
    /\ success = TRUE
    /\ error_message = None
    /\ summary = NoCounts
    /\ exc = NoExc
    /\ zips = 0
    /\ calls = <<>>
    /\ outcome = "none"
    /\ runs = 0
    /\ inflight = 0
    /\ fetched = <<>>
    /\ extracted = <<>>
    /\ staging = "clean"
    /\ max_concurrent_downloads = 0
    /\ dest = <<>>
    /\ semaphore = 0
    /\ task = <<>>
    /\ attempt = <<>>
    /\ clean = <<>>
    /\ fs = <<>>
    /\ results = <<>>
    /\ downloaded_files = <<>>
    /\ scrape_pc = "idle"
    /\ apc = "idle"
    /\ kind = "none"
    /\ zip0 = "absent"
    /\ zip = "absent"
    /\ requests = 0
    /\ temp_dir = FALSE
    /\ todo = <<>>
    /\ loaded = <<>>
    /\ aresult = "none"
    /\ acalls = 0
    /\ fpc = "idle"
    /\ feed0 = "absent"
    /\ feed = "absent"
    /\ feed_gets = 0
    /\ root = <<>>
    /\ max_workers = 0
    /\ done = <<>>
    /\ entries_list = <<>>
    /\ dcalls = <<>>
    /\ fresult = "none"
    /\ fcalls = 0

PublishNext ==
    \/ EnsureWorkspace
    \/ EnsureDatastore
    \/ ComputeBbox
    \/ CreateLayer
    \/ UpdateLayer
    \/ RecordPublication

SpecPublish == PublishInit /\ [][PublishNext]_vars

----------------------------------------------------------------------------
\* ETLRunTracker used on its own (etl_journaling.py): a tracker object whose
\* run_id is None (0 here) until start_run has returned.

\* if self.run_id is None: return -- the guard of complete_run and of
\* update_geoserver_status, as the condition under which they go on.
HasRunIdAlways(id) == TRUE
HasRunId(id) == id # 0

\* The arguments a caller passes to complete_run.
CompleteArgs ==
    {[success |-> TRUE, error_message |-> None],
     [success |-> FALSE, error_message |-> "db error"]}

\* tracker = ETLRunTracker(): self.run_id = None; the table keeps its rows.
TrackerNew ==
    /\ Len(calls) < MaxOps
    /\ run_id # 0
    /\ run_id' = 0
    /\ calls' = Append(calls, "new")
    /\ UNCHANGED <<pc, perform_downloads, publish_to_geoserver, etl_runs,
                   success, error_message, summary, exc, zips, outcome, runs>>
    /\ UNCHANGED <<inflight, fetched, extracted, staging>>
    /\ UNCHANGED <<scrapeVars, archiveVars, feedVars, pubVars, concVars>>

\* tracker.start_run(downloads_performed=pd, geoserver_published=pg): the
\* INSERT either returns the new id or raises before run_id is assigned.
TrackerStartRun(pd, pg) ==
    /\ Len(calls) < MaxOps
    /\ Len(etl_runs) < MaxRuns
    /\ \/ /\ etl_runs' = Append(etl_runs,
                  [status |-> "running",
                   error_message |-> None,
                   downloads_performed |-> pd,
                   geoserver_published |-> pg,
                   records |-> NoCounts])
          /\ run_id' = ReturnedId(etl_runs)
          /\ calls' = Append(calls, "start_run")
       \/ /\ calls' = Append(calls, "start_run:raise")
          /\ UNCHANGED <<run_id, etl_runs>>
    /\ UNCHANGED <<pc, perform_downloads, publish_to_geoserver, success,
                   error_message, summary, exc, zips, outcome, runs>>
    /\ UNCHANGED <<inflight, fetched, extracted, staging>>
    /\ UNCHANGED <<scrapeVars, archiveVars, feedVars, pubVars, concVars>>

\* tracker.complete_run(success=..., error_message=..., records_*=...): with
\* no run_id a warning is logged and the call returns; otherwise the UPDATE
\* runs, and may raise.
TrackerCompleteRun(a) ==
    /\ Len(calls) < MaxOps
    /\ IF HasRunId(run_id)
       THEN \/ /\ etl_runs' = [etl_runs EXCEPT ![run_id] =
                      CompletedRow(@, a.success, a.error_message, NoCounts)]
               /\ calls' = Append(calls, "complete_run")
            \/ /\ calls' = Append(calls, "complete_run:raise")
               /\ UNCHANGED etl_runs
       ELSE /\ calls' = Append(calls, "complete_run:noop")
            /\ UNCHANGED etl_runs
    /\ UNCHANGED <<pc, perform_downloads, publish_to_geoserver, run_id,
                   success, error_message, summary, exc, zips, outcome, runs>>
    /\ UNCHANGED <<inflight, fetched, extracted, staging>>
    /\ UNCHANGED <<scrapeVars, archiveVars, feedVars, pubVars, concVars>>

\* tracker.update_geoserver_status(published): with no run_id the call
\* returns; otherwise the UPDATE runs, and may raise.
TrackerUpdateStatus(flag) ==
    /\ Len(calls) < MaxOps
    /\ IF HasRunId(run_id)
       THEN \/ /\ etl_runs' = [etl_runs EXCEPT
                                 ![run_id].geoserver_published = flag]
               /\ calls' = Append(calls, "update")
            \/ /\ calls' = Append(calls, "update:raise")
               /\ UNCHANGED etl_runs
       ELSE /\ calls' = Append(calls, "update:noop")
            /\ UNCHANGED etl_runs
    /\ UNCHANGED <<pc, perform_downloads, publish_to_geoserver, run_id,
                   success, error_message, summary, exc, zips, outcome, runs>>
    /\ UNCHANGED <<inflight, fetched, extracted, staging>>
    /\ UNCHANGED <<scrapeVars, archiveVars, feedVars, pubVars, concVars>>

\* A tracker has just been constructed over an empty table.
TrackerInit ==
    /\ pc = "idle"
    /\ perform_downloads = TRUE
    /\ publish_to_geoserver = TRUE
    /\ run_id = 0
    /\ etl_runs = <<>>
    /\ success = TRUE
    /\ error_message = None
    /\ summary = NoCounts
    /\ exc = NoExc
    /\ zips = 0
    /\ calls = <<>>
    /\ outcome = "none"
    /\ runs = 0
    /\ inflight = 0
    /\ fetched = <<>>
    /\ extracted = <<>>
    /\ staging = "clean"
    /\ max_concurrent_downloads = 0
    /\ dest = <<>>
    /\ semaphore = 0
    /\ task = <<>>
    /\ attempt = <<>>
    /\ clean = <<>>
    /\ fs = <<>>
    /\ results = <<>>
    /\ downloaded_files = <<>>
    /\ scrape_pc = "idle"
    /\ apc = "idle"
    /\ kind = "none"
    /\ zip0 = "absent"
    /\ zip = "absent"
    /\ requests = 0
    /\ temp_dir = FALSE
    /\ todo = <<>>
    /\ loaded = <<>>
    /\ aresult = "none"
    /\ acalls = 0
    /\ fpc = "idle"
    /\ feed0 = "absent"
    /\ feed = "absent"
    /\ feed_gets = 0
    /\ root = <<>>
    /\ max_workers = 0
    /\ done = <<>>
    /\ entries_list = <<>>
    /\ dcalls = <<>>
    /\ fresult = "none"
    /\ fcalls = 0
    /\ ppc = "idle"
    /\ layer = 0
    /\ http = <<>>
    /\ attempted = {}
    /\ presult = "none"
    /\ reported = "unset"
    /\ proc = <<>>
    /\ pflags = <<>>
    /\ writes = <<>>

TrackerNext ==
    \/ TrackerNew
    \/ \E pd \in BOOLEAN, pg \in BOOLEAN : TrackerStartRun(pd, pg)
    \/ \E a \in CompleteArgs : TrackerCompleteRun(a)
    \/ \E flag \in BOOLEAN : TrackerUpdateStatus(flag)

SpecTracker == TrackerInit /\ [][TrackerNext]_vars

----------------------------------------------------------------------------
\* run_pipeline started by the Celery Beat task and by the run_ingest
\* management command, each in a process of its own. Nothing in tasks.py,
\* run_ingest.py or the settings serialises the two.

Procs == {"beat", "cli"}

\* The perform_downloads values a process passes: run_full_ingest calls
\* run_pipeline() with the defaults, run_ingest passes not skip_download.
FlagsOf(p) == IF p = "beat" THEN {TRUE} ELSE BOOLEAN

\* The process is between its journal start and its journal completion.
InRun(p) == proc[p] \in {"load", "promote", "complete"}

\* run_full_ingest() / Command.handle(): run_pipeline is entered.
ConcInvoke(p, pd) ==
    /\ proc[p] = "idle"
    /\ proc' = [proc EXCEPT ![p] = "start_run"]
    /\ pflags' = [pflags EXCEPT ![p] = pd]
    /\ UNCHANGED writes
    /\ UNCHANGED <<pipeVars, scrapeVars, archiveVars, feedVars, pubVars>>

\* track_etl_run: tracker.start_run(...) inserts the running row, or raises.
ConcStartRun(p) ==
    /\ proc[p] = "start_run"
    /\ \/ proc' = [proc EXCEPT ![p] = IF pflags[p] THEN "load" ELSE "promote"]
       \/ proc' = [proc EXCEPT ![p] = "ended"]
    /\ UNCHANGED <<pflags, writes>>
    /\ UNCHANGED <<pipeVars, scrapeVars, archiveVars, feedVars, pubVars>>

\* download_and_extract_sources: one more bulk load into a staging table;
\* the stage then goes on loading, ends, or raises.
ConcLoad(p) ==
    /\ proc[p] = "load"
    /\ Cardinality({j \in DOMAIN writes :
                       writes[j] = [by |-> p, op |-> "load"]}) < MaxLoads
    /\ writes' = Append(writes, [by |-> p, op |-> "load"])
    /\ \/ UNCHANGED proc
       \/ proc' = [proc EXCEPT ![p] = "promote"]
       \/ proc' = [proc EXCEPT ![p] = "complete"]
    /\ UNCHANGED pflags
    /\ UNCHANGED <<pipeVars, scrapeVars, archiveVars, feedVars, pubVars>>

\* apply_database_refresh(): SELECT staging.update_tables();
ConcPromote(p) ==
    /\ proc[p] = "promote"
    /\ writes' = Append(writes, [by |-> p, op |-> "promote"])
    /\ proc' = [proc EXCEPT ![p] = "complete"]
    /\ UNCHANGED pflags
    /\ UNCHANGED <<pipeVars, scrapeVars, archiveVars, feedVars, pubVars>>

\* track_etl_run's finally block: the row is completed and run_pipeline ends.
ConcComplete(p) ==
    /\ proc[p] = "complete"
    /\ proc' = [proc EXCEPT ![p] = "ended"]
    /\ UNCHANGED <<pflags, writes>>
    /\ UNCHANGED <<pipeVars, scrapeVars, archiveVars, feedVars, pubVars>>

\* Neither process has started its run.
ConcInit ==
    /\ proc = [p \in Procs |-> "idle"]
    /\ pflags = [p \in Procs |-> TRUE]
    /\ writes = <<>>
    /\ pc = "idle"
    /\ perform_downloads = TRUE
    /\ publish_to_geoserver = TRUE
    /\ run_id = 0
    /\ etl_runs = <<>>
    /\ success = TRUE
    /\ error_message = None
    /\ summary = NoCounts
    /\ exc = NoExc
    /\ zips = 0
    /\ calls = <<>>
    /\ outcome = "none"
    /\ runs = 0
    /\ inflight = 0
    /\ fetched = <<>>
    /\ extracted = <<>>
    /\ staging = "clean"
    /\ max_concurrent_downloads = 0
    /\ dest = <<>>
    /\ semaphore = 0
    /\ task = <<>>
    /\ attempt = <<>>
    /\ clean = <<>>
    /\ fs = <<>>
    /\ results = <<>>
    /\ downloaded_files = <<>>
    /\ scrape_pc = "idle"
    /\ apc = "idle"
    /\ kind = "none"
    /\ zip0 = "absent"
    /\ zip = "absent"
    /\ requests = 0
    /\ temp_dir = FALSE
    /\ todo = <<>>
    /\ loaded = <<>>
    /\ aresult = "none"
    /\ acalls = 0
    /\ fpc = "idle"
    /\ feed0 = "absent"
    /\ feed = "absent"
    /\ feed_gets = 0
    /\ root = <<>>
    /\ max_workers = 0
    /\ done = <<>>
    /\ entries_list = <<>>
    /\ dcalls = <<>>
    /\ fresult = "none"
    /\ fcalls = 0
    /\ ppc = "idle"
    /\ layer = 0
    /\ http = <<>>
    /\ attempted = {}
    /\ presult = "none"
    /\ reported = "unset"

ConcNext ==
    \E p \in Procs :
        \/ \E pd \in FlagsOf(p) : ConcInvoke(p, pd)
        \/ ConcStartRun(p)
        \/ ConcLoad(p)
        \/ ConcPromote(p)
        \/ ConcComplete(p)

SpecConcurrent == ConcInit /\ [][ConcNext]_vars

----------------------------------------------------------------------------
(* Properties of run_pipeline *)

Count(seq, x) == Cardinality({i \in DOMAIN seq : seq[i] = x})
Has(seq, x) == \E i \in DOMAIN seq : seq[i] = x
Before(seq, x, y) == \E i, j \in DOMAIN seq : i < j /\ seq[i] = x /\ seq[j] = y

\* run_pipeline has returned or raised.
RunEnded == pc = "idle" /\ outcome \in {"returned", "raised"}
\* The journal row of the current run (only when run_id # 0).
Row == etl_runs[run_id]

\* C1: for every combination of the two flags promotion is invoked exactly
\* once in a run in which neither the journal start nor the download/extract
\* stage threw; with perform_downloads false the download/extract stage is
\* never invoked, with publish_to_geoserver false publication is never invoked.
C1_PromotionOnceFlagsRespected ==
    /\ outcome # "none" /\ ~perform_downloads => ~Has(calls, "download:call")
    /\ outcome # "none" /\ ~publish_to_geoserver => ~Has(calls, "publish:call")
    /\ Count(calls, "refresh:call") <= 1
    /\ (RunEnded /\ run_id # 0 /\ ~Has(calls, "download:raise")
            /\ ~Has(calls, "download:interrupt"))
        => Count(calls, "refresh:call") = 1

C1_Witness ==
    /\ RunEnded
    /\ ~perform_downloads /\ ~publish_to_geoserver
    /\ calls = <<"refresh:call", "refresh:return", "complete_run">>

\* C2: the stages that execute do so in the order download/extract,
\* promotion, publication: promotion starts only after download/extract has
\* returned, publication only after promotion has returned, and no stage is
\* called twice in a run.
C2_StageOrder ==
    /\ \A s \in {"download:call", "refresh:call", "publish:call"} :
            Count(calls, s) <= 1
    /\ Has(calls, "refresh:call") /\ perform_downloads =>
            Before(calls, "download:return", "refresh:call")
    /\ Has(calls, "download:call") /\ Has(calls, "refresh:call") =>
            Before(calls, "download:call", "refresh:call")
    /\ Has(calls, "publish:call") =>
            Before(calls, "refresh:return", "publish:call")

C2_Witness ==
    /\ RunEnded
    /\ calls = <<"download:call", "download:return", "refresh:call",
                 "refresh:return", "publish:call", "publish:return",
                 "complete_run">>

\* C3: if promotion raises an exception, the run's journal row ends with
\* status failed and the exception's text as error message, publication is
\* not invoked, and run_pipeline raises that exception.
C3_PromotionFailureJournalled ==
    (RunEnded /\ run_id # 0 /\ Has(calls, "refresh:raise")) =>
        /\ Row.status = "failed"
        /\ Row.error_message = exc.text
        /\ Row.error_message # None
        /\ ~Has(calls, "publish:call")
        /\ outcome = "raised"

\* C4: if publication raises an exception after download and promotion
\* succeeded, run_pipeline returns normally and the final journal row has
\* status completed and geoserver_published false.
C4_PublicationFailureTolerated ==
    (RunEnded /\ run_id # 0 /\ Has(calls, "publish:raise")) =>
        /\ outcome = "returned"
        /\ Row.status = "completed"
        /\ Row.geoserver_published = FALSE

\* C5: for every run whose journal start succeeded complete_run is executed
\* exactly once, on every exit path of the body: status completed with the
\* summarized counts on normal return, status failed with the exception's
\* message when the body raised an exception.
C5_CompleteRunExactlyOnce ==
    (RunEnded /\ run_id # 0) =>
        /\ Count(calls, "complete_run") + Count(calls, "complete_run:raise") = 1
        /\ exc = NoExc =>
                Row.status = "completed" /\ Row.records = summary
        /\ exc.kind = "Exception" =>
                Row.status = "failed" /\ Row.error_message = exc.text

----------------------------------------------------------------------------
(* Properties of the batch fetcher *)

NumInFlight == Cardinality({e \in Entries : InFlight(e)})

\* C6: during scrape with max_concurrent_downloads = k, in every
\* interleaving of the download tasks the number of downloads inside
\* download_zip never exceeds k.
C6_InFlightBounded == NumInFlight <= max_concurrent_downloads

C6_Witness ==
    /\ max_concurrent_downloads >= 2
    /\ NumInFlight = max_concurrent_downloads
    /\ \E e \in Entries : task[e] = "wait"

\* The paths of the entries whose download_zip returned, in entry order.
SucceededPaths ==
    SelectSeq([e \in Entries |-> IF attempt[e] = "ok" THEN dest[e] ELSE None],
              LAMBDA r : r # None)

\* C7: a failed download does not abort its siblings: scrape never gets
\* stuck before it returns, when it returns every entry's download_zip has
\* been called and has ended, and the returned list holds exactly the paths
\* of the downloads that succeeded.
C7_FailureIsolation ==
    /\ scrape_pc = "gather" => ENABLED ScrapeNext
    /\ scrape_pc = "returned" =>
        /\ \A e \in Entries : attempt[e] \in {"ok", "error"}
        /\ downloaded_files = SucceededPaths

C7_Witness ==
    /\ scrape_pc = "returned"
    /\ \E e \in Entries : attempt[e] = "error"
    /\ \E e \in Entries : attempt[e] = "ok"
    /\ Len(downloaded_files) = Cardinality({e \in Entries : attempt[e] = "ok"})

\* C8: whenever a download_zip call fails, its destination file does not
\* exist afterwards, whether or not a file was there before the attempt.
C8_FailedDownloadLeavesNoFile ==
    [][\A e \in Entries :
        (attempt[e] = "started" /\ attempt'[e] = "error")
            => fs'[dest[e]] = "absent"]_vars

----------------------------------------------------------------------------
(* Properties of the single-archive downloader and the extractor *)

\* C9: invoking the single-archive downloader when its destination file
\* already exists sends no network request, leaves the file unchanged and
\* returns its path (the call goes on to extraction without raising in the
\* download).
C9_ExistingArchiveNotRefetched ==
    (kind \in {"au", "ad"} /\ zip0 = "complete") =>
        /\ requests = 0
        /\ apc \in {"open", "get", "write"} => zip = zip0
        /\ aresult # "download:raised"

\* C10: after extract_dkp / extract_au / extract_ad has returned or raised
\* (bad zip, bulk-load failure), the zip file no longer exists.
C10_ZipDeletedAfterExtract ==
    aresult \in {"returned", "extract:raised"} => zip = "absent"


----------------------------------------------------------------------------
(* Properties of the feed fetch and parse *)

\* The positions of the well formed elements of the document: link, non-empty
\* href, numeric id, and no unparsable updated text.
ValidPositions ==
    {i \in DOMAIN root :
        /\ root[i].link /\ root[i].href # ""
        /\ root[i].id \in {Id2, Id10}
        /\ root[i].updated # "bad"}

Parsed == fpc \in {"scrape", "done"} /\ fresult \notin {"feed:raised", "parse:raised"}

\* C11: for a feed document with N valid and M malformed entry elements in
\* any positions, _extract_entries returns exactly the N valid entries, each
\* once and with its numeric id, sorted ascending by id, for every worker
\* count and every completion order of the worker threads.
C11_ValidEntriesSorted ==
    Parsed =>
        /\ Len(entries_list) = Cardinality(ValidPositions)
        /\ {entries_list[j].title : j \in DOMAIN entries_list} = ValidPositions
        /\ \A j \in DOMAIN entries_list :
                entries_list[j].id =
                    (IF root[entries_list[j].title].id = Id2 THEN 2 ELSE 10)
        /\ \A j, k \in DOMAIN entries_list :
                j < k => entries_list[j].id <= entries_list[k].id

\* A document with malformed elements around two valid ones whose ids are in
\* descending order, parsed by two workers that finished out of order.
C11_Witness ==
    /\ Parsed
    /\ max_workers = 2
    /\ done[1] > done[2]
    /\ Len(entries_list) = 2
    /\ Cardinality(ValidPositions) < Len(root)
    /\ entries_list[1].title > entries_list[2].title
    /\ entries_list[1].id < entries_list[2].id

\* _download_atom_feed has ended in this call.
FeedFetched == fpc \in {"parse", "extract", "scrape"} \/ fresult # "none"

\* C12: when the feed file already exists, _download_atom_feed sends no
\* request and leaves the file unchanged; otherwise it sends exactly one GET
\* of the feed URL.
C12_FeedFetchedOnce ==
    /\ feed0 # "absent" => feed_gets = 0 /\ feed = feed0
    /\ feed0 = "absent" /\ FeedFetched => feed_gets = 1
    /\ feed_gets <= 1

\* The second call of the day finds the feed the first call wrote.
C12_Witness ==
    /\ fcalls = 2
    /\ feed0 = "complete"
    /\ fresult = "returned"
    /\ feed_gets = 0

\* C13: if fetching the feed document fails, the error propagates (no
\* parsing and no archive download in that call) and the feed file does not
\* exist afterwards, so the next call downloads the feed again.
C13_FailedFeedFetchLeavesNoFile ==
    /\ fresult = "feed:raised" =>
            feed = "absent" /\ dcalls = <<"feed">>
    /\ fcalls > 1 => feed0 # "partial"


----------------------------------------------------------------------------
(* Properties of publish_catalog *)

\* The requests of method m sent for catalog entry l.
Sent(m, l) == {j \in DOMAIN http : http[j].method = m /\ http[j].layer = l}
\* The loop has left catalog entry l behind.
LayerEnded(l) == l \in attempted /\ (layer > l \/ presult # "none")

C15_LayerFailureIsolated ==
    (presult # "none" /\ attempted # {}) => attempted = Catalog


----------------------------------------------------------------------------
(* Properties of the journal and of the stages across runs *)

Terminal == {"completed", "failed"}

\* C16: a journal row is created with status running, moves at most once to
\* completed or failed, and is never written again after that: no step
\* changes any field of a row whose status is terminal, and no row is removed.
C16_TerminalRowNeverRewritten ==
    [][/\ Len(etl_runs') >= Len(etl_runs)
       /\ \A i \in DOMAIN etl_runs :
            etl_runs[i].status \in Terminal => etl_runs'[i] = etl_runs[i]
       /\ \A i \in DOMAIN etl_runs' :
            i \notin DOMAIN etl_runs => etl_runs'[i].status = "running"]_vars

\* Two runs have ended, one completed and one failed; the second run wrote
\* its own row only.
C16_Witness ==
    /\ RunEnded
    /\ Len(etl_runs) = 2
    /\ etl_runs[1].status = "completed"
    /\ etl_runs[2].status = "failed"
    /\ etl_runs[1].geoserver_published # etl_runs[2].geoserver_published

RaiseMarks == {"dkp:raise", "au:raise", "ad:raise"}

\* C17: when the bulk loader fails during the extraction of an archive, no
\* later archive is downloaded or extracted in that run, promotion and
\* publication are not invoked, and the run ends failed.
C17_BulkLoadFailureAbortsRun ==
    (RunEnded /\ run_id # 0 /\ \E j \in DOMAIN extracted : extracted[j] \in RaiseMarks)
    =>
        /\ \A j \in DOMAIN extracted :
                extracted[j] \in RaiseMarks => j = Len(extracted)
        /\ extracted[Len(extracted)] = "dkp:raise" =>
                ~Has(fetched, "au") /\ ~Has(fetched, "ad")
        /\ extracted[Len(extracted)] = "au:raise" => ~Has(fetched, "ad")
        /\ ~Has(calls, "refresh:call")
        /\ ~Has(calls, "publish:call")
        /\ outcome = "raised"
        /\ Row.status = "failed"

\* C18: no extraction happens while a download of the batch is in flight,
\* every extraction is of an archive whose download has completed, and when
\* promotion is invoked in a run with downloads, extraction has been attempted
\* for every archive downloaded in that run: all DKP archives, AU and AD.
C18_DownloadThenExtractThenPromote ==
    /\ inflight > 0 => pc = "gather" /\ extracted = <<>>
    /\ \A j \in DOMAIN extracted :
            /\ j \in DOMAIN fetched
            /\ extracted[j] \in {fetched[j], fetched[j] \o ":raise"}
    /\ (Has(calls, "refresh:call") /\ perform_downloads) =>
            /\ extracted = fetched
            /\ zips = 0
            /\ Has(extracted, "au") /\ Has(extracted, "ad")

C18_Witness ==
    /\ Has(calls, "refresh:call")
    /\ perform_downloads
    /\ Count(extracted, "dkp") = 2
    /\ Len(extracted) = 4

\* C19: promotion is never invoked over staging tables that hold a partially
\* loaded result, left by a download/extract stage that aborted partway in
\* this run or an earlier one.
C19_PromotionNeverOverPartialStaging ==
    pc = "refresh" => staging # "partial"

\* C20: a failure of get_journal_summary or complete_run never replaces or
\* suppresses the exception of the body: when the body raised exception E
\* the caller of run_pipeline observes E.
C20_BookkeepingFailureNeverMasks ==
    (RunEnded /\ run_id # 0) =>
        /\ ~success =>
                /\ outcome = "raised"
                /\ exc = [kind |-> "Exception", text |-> error_message]
        /\ (\E j \in DOMAIN calls :
                calls[j] \in {"download:interrupt", "refresh:interrupt",
                              "publish:interrupt"}) =>
                /\ outcome = "raised"
                /\ exc \in Interrupts

\* Promotion raised "timeout", then complete_run raised: the caller got the
\* timeout.
C20_Witness ==
    /\ RunEnded
    /\ Has(calls, "refresh:raise")
    /\ Has(calls, "complete_run:raise")
    /\ outcome = "raised"
    /\ exc.text = "timeout"

----------------------------------------------------------------------------
\* The outcome the latest tracker call has logged.
LatestCall(log) == log[Len(log)]

NoopMarks == {"complete_run:noop", "update:noop"}
GuardedMarks == NoopMarks \cup {"complete_run", "complete_run:raise",
                                "update", "update:raise"}

\* C21: while the tracker's run_id is unset, a call of complete_run or of
\* update_geoserver_status changes no row of the journal table and returns
\* without raising.
C21_UnsetRunIdWritesNothing ==
    [][(/\ run_id = 0
        /\ Len(calls') = Len(calls) + 1
        /\ LatestCall(calls') \in GuardedMarks)
       => (/\ etl_runs' = etl_runs
           /\ LatestCall(calls') \in NoopMarks)]_vars

\* Both calls have been made on a tracker without run_id while the table
\* already held a running row of an earlier tracker.
C21_Witness ==
    /\ run_id = 0
    /\ Len(etl_runs) > 0
    /\ Has(calls, "complete_run:noop")
    /\ Has(calls, "update:noop")

----------------------------------------------------------------------------
\* Positions in the request log of the existence probes, and of the create
\* POSTs of the workspace and the datastore.
Probes == {j \in DOMAIN http : http[j].method = "GET"}
Creates == Sent("POST", 0)

\* C22: an existence probe answered 200 is followed by no create request; a
\* probe answered otherwise is followed by exactly one create POST; and every
\* request for a layer comes after both probes were answered and after every
\* create request.
C22_CreateOnlyWhenProbeNot200 ==
    /\ \A j \in Probes :
          /\ http[j].status = 200 => (j + 1) \notin Creates
          /\ http[j].status \notin {200, 0} =>
                /\ (j + 1) \in Creates
                /\ (j + 2) \notin Creates
    /\ \A k \in Creates : (k - 1) \in Probes /\ http[k - 1].status \notin {200, 0}
    /\ Cardinality(Probes) <= 2
    /\ \A j \in DOMAIN http : http[j].layer > 0 =>
          /\ Cardinality({i \in Probes : i < j /\ http[i].status # 0}) = 2
          /\ \A k \in Creates : k < j
    /\ attempted # {} =>
          Cardinality({i \in Probes : http[i].status # 0}) = 2

\* The workspace was found, the datastore was not and was created, and a
\* layer was then published.
C22_Witness ==
    /\ Len(http) >= 4
    /\ http[1] = [method |-> "GET", layer |-> 0, status |-> 200]
    /\ http[2] = [method |-> "GET", layer |-> 0, status |-> 404]
    /\ http[3].method = "POST" /\ http[3].layer = 0
    /\ http[4].layer = 1

----------------------------------------------------------------------------
\* C23: while one process is between its journal start and its journal
\* completion, every staging load and every promotion call is its own: no
\* other run writes staging or invokes promotion in between.
C23_StagingOwnedByOneRun ==
    [][\A p \in Procs :
          (InRun(p) /\ Len(writes') > Len(writes))
             => writes'[Len(writes')].by = p]_vars

----------------------------------------------------------------------------
\* C24: the journal row of an ended run has geoserver_published true only
\* if publish_layers was invoked in that run and returned without raising.
C24_PublishedOnlyAfterPublication ==
    (RunEnded /\ run_id # 0 /\ Row.geoserver_published)
        => Has(calls, "publish:return")

----------------------------------------------------------------------------
\* The layer was created (201), or existed (409) and its update PUT was
\* answered 200.
LayerPublished(l) ==
    \/ \E j \in Sent("POST", l) : http[j].status = 201
    \/ /\ \E j \in Sent("POST", l) : http[j].status = 409
       /\ \E j \in Sent("PUT", l) : http[j].status = 200

\* C25: when the publish branch has ended with geoserver_published true,
\* every layer of the catalog was created or updated successfully.
C25_PublishedMeansEveryLayerPublished ==
    (ppc = "recorded" /\ reported = "true")
        => \A l \in Catalog : LayerPublished(l)

----------------------------------------------------------------------------
\* C26: once run_pipeline has returned or raised, no row of the journal is
\* left in status running: every row inserted as running has been set to
\* completed or failed.
C26_NoRowLeftRunning ==
    RunEnded => \A i \in DOMAIN etl_runs : etl_runs[i].status \in Terminal

\* C27: the row of an ended run has status completed only if the body ran
\* to its normal end: no exception, and no KeyboardInterrupt or SystemExit,
\* left it.
C27_CompletedOnlyAfterNormalEnd ==
    (RunEnded /\ run_id # 0 /\ Row.status = "completed")
        => (exc = NoExc /\ Has(calls, "refresh:return"))

\* No stage of the run failed or was interrupted.
StagesSucceeded ==
    /\ \A j \in DOMAIN calls :
          calls[j] \notin {"download:raise", "download:interrupt",
                           "refresh:raise", "refresh:interrupt"}
    /\ \A j \in DOMAIN extracted : extracted[j] \notin RaiseMarks

\* C30: a run with perform_downloads true, whose journal start succeeded and
\* in which the feed fetch, every download, every bulk load and promotion
\* succeed, has extracted the DKP archives, AU and AD, has invoked promotion
\* and ends with status completed.
C30_SuccessfulRunCompletes ==
    (RunEnded /\ run_id # 0 /\ perform_downloads /\ StagesSucceeded)
        => /\ Has(calls, "download:return")
           /\ extracted = fetched
           /\ Has(extracted, "au") /\ Has(extracted, "ad")
           /\ Has(calls, "refresh:return")
           /\ Row.status = "completed"

----------------------------------------------------------------------------
\* C28: when scrape has returned, every path of the returned list names a
\* file that exists and holds one complete download.
C28_ReturnedPathsAreCompleteFiles ==
    scrape_pc = "returned" =>
        \A j \in DOMAIN downloaded_files :
            fs[downloaded_files[j]] = "complete"

----------------------------------------------------------------------------
\* What _extract_entries returns when the worker threads finish in document
\* order.
InDocumentOrder ==
    SortById(SelectSeq([i \in DOMAIN root |-> ExtractSingleEntry(i)],
                       LAMBDA r : r # NoEntry))

\* C29: the entry list is a function of the feed document alone: whatever
\* the worker count and the order in which the worker threads finish, the
\* parser returns the sequence it returns when they finish in document order.
C29_EntryListDeterministic ==
    Parsed => entries_list = InDocumentOrder

=============================================================================
